---- MODULE Spec2Model ----
(***************************************************************************)
(* The Fern SDK generator server (fern-express): the /check and /generate  *)
(* request handlers, their workspace directories and the subprocesses      *)
(* they run.                                                               *)
(*                                                                         *)
(* The repository holds four revisions of the server:                      *)
(*   "server"  src/server.js            /check and /generate               *)
(*   "part000" src/unnamed/part_000     /generate only (fern init)         *)
(*   "part001" src/unnamed/part_001     /check and /generate               *)
(*   "part002" src/unnamed/part_002     /check and /generate               *)
(* The variable `version` says which of them is the running process, and   *)
(* `apiKey` whether its environment defines API_KEY.  Spec is the server   *)
(* with the key defined, SpecAnyKey the server with or without it; past    *)
(* checkApiKey the two behave alike.                                       *)
(*                                                                         *)
(* Granularity.  Node runs one handler at a time; a handler is left only   *)
(* at an `await` on real I/O (specFile.mv, the archive's output stream,    *)
(* fs.remove) or when it returns.  execSync blocks the whole process and   *)
(* an `await` on an already settled promise resumes in the same microtask  *)
(* drain, so the code between two I/O waits is one atomic step:            *)
(*   Receive      request arrival up to the start of specFile.mv           *)
(*   MvDone       mv completed: npm check, install, layout, start of the   *)
(*                tool                                                     *)
(*   ToolExit     the tool exited: response of /check, start of the        *)
(*                archive                                                  *)
(*   ZipDone      archive closed: headers, start of the response stream    *)
(*   StreamFinish the response emitted 'finish'                            *)
(*   CleanupErrDone / CleanupFinDone   an asynchronous fs.remove completed *)
(*                                                                         *)
(* The generator configuration a job writes is a pure function of the      *)
(* request's language, package name and options.  It is examined on its    *)
(* own in SpecConfig, whose variable `gen` holds one such request, the     *)
(* configuration written for it and the target of the generate command.    *)
(* SpecSetup examines which generators.yml the project setup writes for   *)
(* either route, and SpecDiag the list of diagnostics a failed check is    *)
(* answered with, a pure function of what the tool wrote to its two        *)
(* streams; both keep their request in `gen` as well.                      *)
(* In Spec `gen` stays at NoGen.                                           *)
(***************************************************************************)
EXTENDS Integers, FiniteSets, Sequences, TLC

VARIABLES version, apiKey, now, proc, fs, jobs, foreign, gen

vars == <<version, apiKey, now, proc, fs, jobs, foreign, gen>>

\* ------------------------------------------------------------------ bounds

\* Number of requests the model lets arrive.
MaxJobs == 2

\* Milliseconds that may pass between two arrivals without a subprocess having
\* run in between (Date.now() has millisecond granularity).
MaxElapsed == 1

\* Number of things that may be wrong with one request (no spec file, a
\* missing parameter, an unparseable config field).
MaxDefects == 1

\* Number of lines in the captured stderr or stdout of a failing `fern check`.
MaxOutLines == 2

JobIds == 1..MaxJobs

\* ------------------------------------------------------------------ domains

Versions == {"server", "part000", "part001", "part002"}

Kinds == {"generate", "check"}

\* The request as the HTTP layer hands it over: is a spec file attached, are
\* language and packageName present (as body fields, or in part_001 as keys
\* of the config object), and what is the `config` field: absent, a JSON
\* object with a string `tempDir` key, or not JSON.
ParamValues == {"ok", "noLanguage", "noPackageName"}

CfgValues == {"none", "tempDir", "malformed"}

\* API_KEY in the server's environment: defined, or not.
KeyStates == {"set", "unset"}

\* The x-api-key header of a request: missing, the key the server compares
\* with, or another string.
Headers == {"none", "right", "wrong"}

\* States of the `generated` directory inside a workspace.
GenValues == {"absent", "empty", "files"}

\* What a subprocess wrote: the text as the sequence of its lines, the pieces
\* between the newline characters.  The empty string is one empty line.
OutLines == {"", " ", " e "}

Captured == UNION {[1..n -> OutLines] : n \in 1..MaxOutLines}

\* The same with a second kind of non-blank line, to tell the order of two
\* lines and the stream they came from.
DiagLines == OutLines \cup {"w "}

DiagCaptured == UNION {[1..n -> DiagLines] : n \in 1..MaxOutLines}

EmptyString == <<"">>

Defects(req) ==
  (IF req.hasSpec THEN 0 ELSE 1) + (IF req.params = "ok" THEN 0 ELSE 1)
    + (IF req.cfg = "malformed" THEN 1 ELSE 0)

NoDir == [root |-> "none", prefix |-> "none", t |-> 0]

\* ------------------------------------------------------------------ middleware

\* app.use(fileUpload({useTempFiles: true, tempFileDir})) runs for every
\* request, before the route's own middleware: an attached file is written to
\* a temp file under tempFileDir while the body is parsed.
fileUpload(hasSpec) == IF hasSpec THEN "temp" ELSE "none"

\* checkApiKey of src/server.js: without API_KEY every request is refused
\* with 500; otherwise the header has to equal the key.
server_checkApiKey(key, header) ==
  IF key = "unset" THEN "500"
  ELSE IF header # "right" THEN "401"
  ELSE "next"

\* part_001: API_KEY falls back to 'development-key', so the test for a
\* missing key never fires and the header has to equal the key in force.
part001_checkApiKey(key, header) ==
  IF header # "right" THEN "401" ELSE "next"

\* part_000: without API_KEY a warning is printed and the request passes.
part000_checkApiKey(key, header) ==
  IF key = "unset" THEN "next"
  ELSE IF header # "right" THEN "401"
  ELSE "next"

\* part_002: as part_000.
part002_checkApiKey(key, header) ==
  IF key = "unset" THEN "next"
  ELSE IF header # "right" THEN "401"
  ELSE "next"

checkApiKey(v, key, header) ==
  CASE v = "server" -> server_checkApiKey(key, header)
    [] v = "part001" -> part001_checkApiKey(key, header)
    [] v = "part002" -> part002_checkApiKey(key, header)
    [] OTHER -> part000_checkApiKey(key, header)

\* Does checkApiKey compare the header with anything?
ReadsHeader(v, key) == key = "set" \/ v = "part001"

\* ------------------------------------------------------------------ routes

\* part_000 registers only /generate; the others register both routes.
Routes(v) == IF v = "part000" THEN {"generate"} ELSE Kinds

\* ------------------------------------------------------------------ filesystem

\* fs maps every existing workspace path to its contents.  creator is the job
\* whose ensureDirSync made the directory.
NewDir(j) == [creator |-> j, gen |-> "absent", zip |-> FALSE, spec |-> FALSE]

\* fs.ensureDirSync: creates the directory unless it exists; never fails on an
\* existing directory.
ensureDirSync(f, p, j) ==
  IF p \in DOMAIN f THEN f
  ELSE [q \in (DOMAIN f) \cup {p} |-> IF q = p THEN NewDir(j) ELSE f[q]]

\* fs-extra's remove: recursive; a path that does not exist is not an error.
\* The server removes only directories it created itself under its own temp
\* root, so the removal is taken to succeed.
fs_remove(f, p) ==
  [fs |-> [q \in (DOMAIN f) \ {p} |-> f[q]], err |-> FALSE]

\* Mutant of cleanupWorkDir: rmdir semantics without the try/catch, so that a
\* path that is gone raises to the caller.
cleanupWorkDir_rethrows(f, p) ==
  [fs |-> fs_remove(f, p).fs, raised |-> p \notin DOMAIN f]

\* cleanupWorkDir: await fs.remove inside try/catch; an error is logged, never
\* rethrown.
cleanupWorkDir(f, p) ==
  LET r == fs_remove(f, p) IN [fs |-> r.fs, raised |-> FALSE]

\* try { fs.removeSync(workDir) } catch { console.error } of part_000/part_002.
removeSyncGuarded(f, p) ==
  LET r == fs_remove(f, p) IN [fs |-> r.fs, raised |-> FALSE]

\* The `generated` directory after a tool run that left `out`, given what was
\* there before (a tool run adds files, it removes none).
Rank(g) == CASE g = "absent" -> 0 [] g = "empty" -> 1 [] OTHER -> 2

MergeGen(old, out) == IF Rank(out) >= Rank(old) THEN out ELSE old

\* ------------------------------------------------------------------ per-revision tables

\* Validation and option parsing that precede the workspace allocation.
\* "ok": the handler goes on to create the workspace; "400"/"500": it answers
\* and returns; "unhandled": it throws outside every try block, so the async
\* handler's promise is rejected and nobody answers the request.

\* src/server.js /check: language, packageName, JSON.parse outside any try.
server_check_pre(req) ==
  IF req.params = "noLanguage" THEN "400"
  ELSE IF req.params = "noPackageName" THEN "400"
  ELSE IF req.cfg = "malformed" THEN "unhandled"
  ELSE "ok"

\* src/server.js /generate: all of it inside the outer try.  The local
\* `config` (the caller's parsed options) shadows the server configuration, so
\* path.join(config.tempDir, ...) throws a TypeError unless the caller's
\* options carry a string tempDir.
server_generate_pre(req) ==
  IF req.params = "noLanguage" THEN "400"
  ELSE IF req.params = "noPackageName" THEN "400"
  ELSE IF req.cfg = "malformed" THEN "500"
  ELSE IF req.cfg # "tempDir" THEN "500"
  ELSE "ok"

\* part_001 /check: JSON.parse outside any try; nothing else is validated.
part001_check_pre(req) ==
  IF req.cfg = "malformed" THEN "unhandled" ELSE "ok"

\* part_001 /generate: JSON.parse outside the try, then the spec file check.
part001_generate_pre(req) ==
  IF req.cfg = "malformed" THEN "unhandled"
  ELSE IF ~req.hasSpec THEN "400"
  ELSE "ok"

\* part_002 /check: only the spec file is looked at.
part002_check_pre(req) ==
  IF ~req.hasSpec THEN "400" ELSE "ok"

\* part_002 /generate: spec file, language, packageName, JSON.parse, all inside
\* the outer try.
part002_generate_pre(req) ==
  IF ~req.hasSpec THEN "400"
  ELSE IF req.params = "noLanguage" THEN "400"
  ELSE IF req.params = "noPackageName" THEN "400"
  ELSE IF req.cfg = "malformed" THEN "500"
  ELSE "ok"

\* part_000 /generate: the same checks as part_002 /generate.
part000_generate_pre(req) ==
  IF ~req.hasSpec THEN "400"
  ELSE IF req.params = "noLanguage" THEN "400"
  ELSE IF req.params = "noPackageName" THEN "400"
  ELSE IF req.cfg = "malformed" THEN "500"
  ELSE "ok"

\* What a handler reads of the request besides the spec file: the language
\* and the package name ("params"), req.body.config ("cfg").  part_002 /check
\* reads neither.  part_001 takes language and packageName from the keys of
\* the parsed config and falls back to typescript / api-client only when the
\* request has no config field at all.
ReadsParams(v, k) ==
  v \in {"server", "part000", "part001"} \/ (v = "part002" /\ k = "generate")

OptionsCarryParams(v) == v = "part001"

ReadsCfg(v, k) == ~(v = "part002" /\ k = "check")

PreCheck(v, req) ==
  CASE v = "server" /\ req.kind = "check" -> server_check_pre(req)
    [] v = "server" /\ req.kind = "generate" -> server_generate_pre(req)
    [] v = "part001" /\ req.kind = "check" -> part001_check_pre(req)
    [] v = "part001" /\ req.kind = "generate" -> part001_generate_pre(req)
    [] v = "part002" /\ req.kind = "check" -> part002_check_pre(req)
    [] v = "part002" /\ req.kind = "generate" -> part002_generate_pre(req)
    [] OTHER -> part000_generate_pre(req)

\* The directory the workspace is created under: the server's temp root, except
\* in src/server.js /generate, which reads tempDir from the caller's options.
WorkRoot(v, req) ==
  IF v = "server" /\ req.kind = "generate" THEN "caller" ELSE "tmp"

\* `fern-check-${Date.now()}` and `fern-${Date.now()}`.
Prefix(k) == IF k = "check" THEN "fern-check" ELSE "fern"

WorkDirFor(v, req, t) ==
  [root |-> WorkRoot(v, req), prefix |-> Prefix(req.kind), t |-> t]

\* setupFernProject (server.js, part_001) checks for the spec file itself,
\* after the handler created the workspace.
SpecCheckedInSetup(v) == v \in {"server", "part001"}

\* A handler that runs the tool before the install and the project layout.
StageSeq_invokeBeforeInstall(v, k) ==
  CASE v = "part000" -> <<"mv", "genconfig", "npm", "tool", "install", "init">>
    [] v = "part002" /\ k = "generate" ->
         <<"mv", "npm", "tool", "install", "materialize", "genconfig">>
    [] OTHER -> <<"mv", "npm", "tool", "install", "materialize">>

\* A handler that runs the tool a second time.
StageSeq_retriesTool(v, k) ==
  CASE v = "part000" ->
         <<"mv", "genconfig", "npm", "install", "init", "tool", "tool">>
    [] v = "part002" /\ k = "generate" ->
         <<"mv", "npm", "install", "materialize", "genconfig", "tool", "tool">>
    [] OTHER -> <<"mv", "npm", "install", "materialize", "tool", "tool">>

\* The stages a handler runs between the completion of specFile.mv and the
\* end of the tool invocation, in order.
StageSeq(v, k) ==
  CASE v = "part000" -> <<"mv", "genconfig", "npm", "install", "init", "tool">>
    [] v = "part002" /\ k = "generate" ->
         <<"mv", "npm", "install", "materialize", "genconfig", "tool">>
    [] OTHER -> <<"mv", "npm", "install", "materialize", "tool">>

StageSet(v, k) == {StageSeq(v, k)[i] : i \in 1..Len(StageSeq(v, k))}

SubprocessStages == {"npm", "install", "init", "tool"}

\* The stages up to and including stage s ("none": all of them).
RanUpTo(v, k, s) ==
  LET sq == StageSeq(v, k)
  IN {sq[i] : i \in {n \in 1..Len(sq) :
                       s = "none" \/ \E m \in n..Len(sq) : sq[m] = s}}

\* The name under which a stage is entered in a job's trace.  mv is entered
\* when the request is received; the trace notes its completion.
EventOf(s) ==
  CASE s = "mv" -> "saved"
    [] s \in {"materialize", "init"} -> "layout"
    [] s = "tool" -> "invoke"
    [] OTHER -> s

\* A handler that logs a failed stage and carries on with the stages after it.
Entered_carriesOn(v, k, fail) ==
  LET sq == StageSeq(v, k)
  IN IF fail = "mv" THEN <<>> ELSE [i \in 1..Len(sq) |-> EventOf(sq[i])]

\* The trace entries of the step that follows specFile.mv when `fail` is the
\* first failing stage: every stage up to and including the failing one.
Entered(v, k, fail) ==
  LET sq == StageSeq(v, k)
      n == IF fail = "none" THEN Len(sq)
           ELSE CHOOSE i \in 1..Len(sq) : sq[i] = fail
  IN IF fail = "mv" THEN <<>> ELSE [i \in 1..n |-> EventOf(sq[i])]

\* What a failing stage does: "throw" reaches the handler's catch blocks,
\* "return" answers from inside the try and leaves the handler.

\* src/server.js: setupFernProject throws; the genError catch returns.
server_onFail(k, s) ==
  IF k = "generate" /\ s = "tool" THEN "return" ELSE "throw"

\* part_001: as server.js; the missing-output check and the zipError catch
\* return as well.
part001_onFail(k, s) ==
  IF k = "generate" /\ s \in {"tool", "verify", "pack"} THEN "return" ELSE "throw"

\* part_002: the npm, install, layout and tool catches return; mv, the write
\* of generators.yml and the archive throw.
part002_onFail(k, s) ==
  IF s \in {"npm", "install", "materialize", "tool"} THEN "return" ELSE "throw"

\* part_000: the npm, install, init and tool catches return.
part000_onFail(k, s) ==
  IF s \in {"npm", "install", "init", "tool"} THEN "return" ELSE "throw"

OnFail(v, k, s) ==
  CASE v = "server" -> server_onFail(k, s)
    [] v = "part001" -> part001_onFail(k, s)
    [] v = "part002" -> part002_onFail(k, s)
    [] OTHER -> part000_onFail(k, s)

\* What the catch block around the job does with the workspace: nothing
\* (/check of server.js and part_001), await cleanupWorkDir (/generate of
\* server.js and part_001), or removeSync (part_000, part_002).
server_catch(k) == IF k = "check" THEN "none" ELSE "async"

part001_catch(k) == IF k = "check" THEN "none" ELSE "async"

part002_catch(k) == "sync"

part000_catch(k) == "sync"

CatchCleanup(v, k) ==
  CASE v = "server" -> server_catch(k)
    [] v = "part001" -> part001_catch(k)
    [] v = "part002" -> part002_catch(k)
    [] OTHER -> part000_catch(k)

\* part_002 /check wraps the check invocation in try/catch/finally and removes
\* the workspace in the finally block.
ToolFinally(v, k) == v = "part002" /\ k = "check"

\* The response 'finish' handler: await cleanupWorkDir (server.js, part_001) or
\* removeSync (part_000, part_002).
FinishCleanup(v) == IF v \in {"server", "part001"} THEN "async" ELSE "sync"

\* part_001 looks for <workDir>/generated after a zero exit and treats its
\* absence as a generation failure.
VerifiesOutput(v) == v = "part001"

\* createZipArchive: part_001 rejects when the generated directory is missing
\* or empty.  part_000 and part_002 warn about a missing directory and
\* finalize an archive without entries.  src/server.js calls logger.warn for a
\* missing directory, and its logger has no warn: the TypeError thrown inside
\* the promise executor rejects the promise.  An empty directory adds no
\* entries and is not noticed outside part_001.
createZipArchive(v, generatedDir) ==
  IF v = "part001" /\ generatedDir \in {"absent", "empty"} THEN "reject"
  ELSE IF v = "server" /\ generatedDir = "absent" THEN "reject"
  ELSE "pending"

\* A promise rejection nobody handles.  part_001 installs an unhandledRejection
\* handler that exits after a grace delay; the others install none, and Node
\* then either only warns or terminates the process, depending on its version.
UnhandledRejection(v, p, nodeExits) ==
  IF p = "down" THEN p
  ELSE IF v = "part001" THEN "grace"
  ELSE IF nodeExits THEN "down" ELSE p

\* An exception nobody catches (an 'error' event without listener): part_001
\* exits after the grace delay, the others terminate at once.
UncaughtException(v, p) ==
  IF p = "down" THEN p
  ELSE IF v = "part001" THEN "grace"
  ELSE "down"

\* ------------------------------------------------------------------ check diagnostics

\* String.prototype.trim on a line.
trim(l) ==
  CASE l = " " -> "" [] l = " e " -> "e" [] l = "w " -> "w" [] OTHER -> l

\* A catch block that parses everything the tool wrote, stderr first.
parseValidationErrors_bothStreams(stderr, stdout) ==
  LET errorOutput == stderr \o stdout
      kept == SelectSeq(errorOutput, LAMBDA l : trim(l) # "")
  IN [i \in 1..Len(kept) |-> trim(kept[i])]

\* The validationErrors list of the checkError catch block: stderr, or stdout
\* when stderr is the empty string; split at the newlines, blank lines
\* dropped, the others trimmed.  An empty errorOutput leaves the list empty.
parseValidationErrors(stderr, stdout) ==
  LET errorOutput == IF stderr # EmptyString THEN stderr ELSE stdout
      kept == SelectSeq(errorOutput, LAMBDA l : trim(l) # "")
  IN IF errorOutput = EmptyString THEN <<>>
     ELSE [i \in 1..Len(kept) |-> trim(kept[i])]

\* The lists a failing check can end up with, over everything it may have
\* written to stderr and stdout.
CheckDiagnostics ==
  {parseValidationErrors(e, o) : e \in Captured, o \in Captured}

\* The `valid` key of the body sent for a failed check: part_002 sends
\* valid:false; server.js and part_001 send {error, details} without the key.
CheckFailValid(v) == IF v = "part002" THEN "false" ELSE "absent"

\* ------------------------------------------------------------------ generator configuration

\* The languages the switch statements know, and two identifiers they do not.
Supported == {"typescript", "python", "java", "go", "ruby", "csharp"}

Languages == Supported \cup {"cobol", "Python"}

PackageNames == {"acme-client", "sdk"}

\* A toggle in the caller's options: the key is missing, true or false.
Toggles == {"absent", "true", "false"}

\* `${x || d}` inside a template literal: x when x is truthy, d otherwise.
\* undefined and false are both falsy.
OrDefault(x, d) == IF x = "true" THEN x ELSE d

\* The case of the switch that a language identifier selects.
SwitchCase(language) == IF language \in Supported THEN language ELSE "default"

\* The text a revision produces, reduced to what distinguishes two results:
\* the generator keys it declares, the output path, the package name where the
\* text embeds one, and the two toggles as they are printed.

\* src/server.js: the default case repeats the typescript case.
server_generateFernGeneratorsConfig(language, packageName, config) ==
  LET c == SwitchCase(language)
      variant == IF c = "default" THEN "typescript" ELSE c
  IN [variants |-> {variant},
      path |-> <<"./generated", variant>>,
      name |-> packageName,
      includeExamples |-> OrDefault(config.includeExamples, "true"),
      includeTests |-> OrDefault(config.includeTests, "false")]

\* part_001: one group per language; the typescript case writes to
\* ./generated, the default case to ./generated/typescript; only the go
\* variant embeds the package name.
part001_generateFernGeneratorsConfig(options) ==
  LET c == SwitchCase(options.language)
      variant == IF c = "default" THEN "typescript" ELSE c
  IN [variants |-> {variant},
      path |-> IF c = "typescript" THEN <<"./generated">>
               ELSE <<"./generated", variant>>,
      name |-> IF c = "go" THEN options.packageName ELSE "none",
      includeExamples |-> OrDefault(options.includeExamples, "true"),
      includeTests |-> OrDefault(options.includeTests, "false")]

\* part_002: the same text as src/server.js.
part002_generateFernGeneratorsConfig(language, packageName, config) ==
  LET c == SwitchCase(language)
      variant == IF c = "default" THEN "typescript" ELSE c
  IN [variants |-> {variant},
      path |-> <<"./generated", variant>>,
      name |-> packageName,
      includeExamples |-> OrDefault(config.includeExamples, "true"),
      includeTests |-> OrDefault(config.includeTests, "false")]

\* part_000: generateFernConfig writes fern.config.yml with the same cases.
part000_generateFernConfig(language, packageName, config) ==
  LET c == SwitchCase(language)
      variant == IF c = "default" THEN "typescript" ELSE c
  IN [variants |-> {variant},
      path |-> <<"./generated", variant>>,
      name |-> packageName,
      includeExamples |-> OrDefault(config.includeExamples, "true"),
      includeTests |-> OrDefault(config.includeTests, "false")]

\* The configuration revision v writes for a request.
generateFernGeneratorsConfig(v, language, packageName, config) ==
  CASE v = "server" ->
         server_generateFernGeneratorsConfig(language, packageName, config)
    [] v = "part001" ->
         part001_generateFernGeneratorsConfig(
           [language |-> language, packageName |-> packageName,
            includeExamples |-> config.includeExamples,
            includeTests |-> config.includeTests])
    [] v = "part002" ->
         part002_generateFernGeneratorsConfig(language, packageName, config)
    [] OTHER -> part000_generateFernConfig(language, packageName, config)

\* getGeneratorForLanguage of part_000: the flag for the language, --typescript
\* for an unknown one.
getGeneratorForLanguage(language) ==
  IF language \in Supported THEN language ELSE "typescript"

\* What the generate command names as its target: nothing in src/server.js
\* and part_002 (`fern generate --local`), the group called like the request's
\* language in part_001 (`--group ` + options.language), the language flag in
\* part_000.
GenerateTarget(v, language) ==
  CASE v = "part001" -> language
    [] v = "part000" -> getGeneratorForLanguage(language)
    [] OTHER -> "all"

\* Does the written configuration declare what the command targets?
TargetDeclared(out, target) == target = "all" \/ target \in out.variants

NoOut ==
  [variants |-> {}, path |-> <<>>, name |-> "none", includeExamples |-> "none",
   includeTests |-> "none"]

\* What a handler wrote to generators.yml: nothing, the one-line stub, or a
\* full configuration.
NoContent == [text |-> "none", config |-> NoOut]

MinimalGenerators == [text |-> "stub", config |-> NoOut]

\* Where a handler puts the check-only flag before it calls setupFernProject:
\* src/server.js /check sets requestConfig.isCheckOnly and passes
\* { language, packageName, config: requestConfig }; part_001 sets
\* options.isCheckOnly on the object it passes; part_002 and part_000 have no
\* flag.
CheckOnlyFlag(v, k) ==
  CASE v = "server" ->
         [options |-> "absent",
          config |-> IF k = "check" THEN "true" ELSE "absent"]
    [] v = "part001" ->
         [options |-> IF k = "check" THEN "true" ELSE "false",
          config |-> "absent"]
    [] OTHER -> [options |-> "absent", config |-> "absent"]

\* const isCheckOnly = options.isCheckOnly || false in src/server.js; the
\* setupFernProject of part_001 does not read the flag.
setup_isCheckOnly(v, flag) == v = "server" /\ flag.options = "true"

\* The content setupFernProject (part_002: the handler itself) writes to
\* generators.yml.  The /check handler of part_002 writes no such file.
generatorsContent(v, k, language, packageName, config) ==
  IF v = "part002" /\ k = "check" THEN NoContent
  ELSE IF setup_isCheckOnly(v, CheckOnlyFlag(v, k)) THEN MinimalGenerators
  ELSE [text |-> "full",
        config |-> generateFernGeneratorsConfig(v, language, packageName,
                                                config)]

\* Paths below the workspace, as their components; NoPath where a revision
\* has no such step.
NoPath == <<>>

\* fs.ensureDirSync(path.join(fernDir, 'generated')) at the end of part_001's
\* setupFernProject, fernDir being <workDir>/fern.  The other revisions leave
\* the output directory to the tool.
OutputDirCreated(v) ==
  IF v = "part001" THEN <<"fern", "generated">> ELSE NoPath

\* fs.existsSync(path.join(workDir, 'generated')) after the generate command
\* in part_001; the other revisions do not look.
OutputDirVerified(v) == IF v = "part001" THEN <<"generated">> ELSE NoPath

\* createZipArchive(workDir, zipPath) walks path.join(sourceDir, 'generated').
OutputDirWalked(v) == <<"generated">>

NoGen ==
  [pc |-> "idle", language |-> "none", packageName |-> "none",
   includeExamples |-> "absent", includeTests |-> "absent", out |-> NoOut,
   target |-> "none", route |-> "none", written |-> NoContent,
   stderr |-> EmptyString, stdout |-> EmptyString, errors |-> <<>>,
   created |-> NoPath, verified |-> NoPath, walked |-> NoPath]

\* ------------------------------------------------------------------ jobs

\* The strings a request carries as its package name and language.  Request
\* j carries values of its own, so that a name leaking from one request into
\* another shows; Undefined is what a template literal prints for a missing
\* property.
NoName == <<"none", 0>>
Undefined == <<"undefined", 0>>
DefaultPackageName == <<"api-client", 0>>
DefaultLanguage == <<"typescript", 0>>

\* const language = req.body.language; const packageName =
\* req.body.packageName; part_001 instead takes both from `options`, the
\* parsed config or, without a config, the default object.
RequestNames(v, j, pa, cf) ==
  IF OptionsCarryParams(v) /\ cf = "none"
  THEN [packageName |-> DefaultPackageName, language |-> DefaultLanguage]
  ELSE [packageName |-> IF pa = "noPackageName" THEN Undefined
                        ELSE <<"packageName", j>>,
        language |-> IF pa = "noLanguage" THEN Undefined
                     ELSE <<"language", j>>]

\* res.setHeader('Content-Disposition',
\*   `attachment; filename=${packageName}-${language}-sdk.zip`), the two names
\* being constants of the handler's own invocation.
ContentDisposition(js, j) == <<js[j].packageName, js[j].language, "sdk.zip">>

\* The error execSync throws when the command of job j exits non-zero: with
\* stdio 'pipe' and encoding 'utf8' it carries what the child wrote to its two
\* streams.  Each job's child writes text of its own.
ExecError(j) == [stderr |-> <<"stderr", j>>, stdout |-> <<"stdout", j>>]

NoDetails == <<>>

\* A catch block that answers with the message alone.
genErrorDetails_messageOnly(genError) == NoDetails

\* details: { stderr: genError.stderr, stdout: genError.stdout } in the body
\* of the 500 response.
genErrorDetails(genError) == <<genError.stderr, genError.stdout>>

IdleJob ==
  [pc |-> "idle", kind |-> "none", hasSpec |-> FALSE, params |-> "ok",
   cfg |-> "none", workDir |-> NoDir, resp |-> "none", wsAtResp |-> FALSE,
   connected |-> TRUE, failed |-> "none", genExit |-> "none",
   outDir |-> "none", packIn |-> "none", fin |-> FALSE, released |-> 0,
   raised |-> FALSE, valid |-> "none", errors |-> <<>>, trace |-> <<>>,
   tool |-> "none", header |-> "none", upload |-> "none",
   packageName |-> NoName, language |-> NoName, filename |-> NoName,
   details |-> NoDetails]

\* A server that started its commands with the asynchronous exec: the event
\* loop goes on while a child runs.
execRunning_async == FALSE

\* execSync does not return before the child exited, and nothing else of the
\* process runs meanwhile: no callback, no timer, no new request.  The model
\* shows the process in that state during the tool invocation.
execSyncRunning == \E j \in JobIds : jobs[j].pc = "tool"

\* res.status(code).json(...) / res.json(...): the response is handed to the
\* socket.  wsAtResp records whether the job's workspace exists at that moment.
Respond(job, code, f) ==
  [job EXCEPT !.resp = code, !.wsAtResp = (job.workDir \in DOMAIN f),
              !.pc = "done", !.trace = @ \o <<"responded">>]

\* The operations of job j on path p that touch a directory another job made.
Touch(f, j, p, op) ==
  IF p \in DOMAIN f /\ f[p].creator # j THEN {<<j, op>>} ELSE {}

\* A handler whose inner catch removes the workspace and rethrows into an
\* outer catch that removes it as well.
Thrown_outerCatchCleansToo(v, j, job, f, code) ==
  LET r == removeSyncGuarded(f, job.workDir)
  IN [job |-> Respond([job EXCEPT !.released = @ + 2,
                                  !.raised = @ \/ r.raised,
                                  !.trace = @ \o <<"cleaned">>],
                      "500", r.fs),
      fs |-> r.fs, ops |-> Touch(f, j, job.workDir, "remove")]

\* An exception thrown inside the handler's inner try, after the workspace was
\* created: the catch block cleans up (or not) and the handler answers `code`.
\* The result is the job, the filesystem and the foreign operations.
Thrown(v, j, job, f, code) ==
  LET how == CatchCleanup(v, job.kind)
      r == removeSyncGuarded(f, job.workDir)
  IN CASE how = "none" ->
            [job |-> Respond(job, code, f), fs |-> f, ops |-> {}]
       [] how = "sync" ->
            [job |-> Respond([job EXCEPT !.released = @ + 1,
                                         !.raised = @ \/ r.raised,
                                         !.trace = @ \o <<"cleaned">>],
                             "500", r.fs),
             fs |-> r.fs, ops |-> Touch(f, j, job.workDir, "remove")]
       [] OTHER ->
            [job |-> [job EXCEPT !.pc = "rmErr", !.released = @ + 1],
             fs |-> f, ops |-> {}]

\* ------------------------------------------------------------------ initial state

\* The server as the README sets it up, with API_KEY in its environment.
Init ==
  /\ version \in Versions
  /\ apiKey = "set"
  /\ now = 0
  /\ proc = "up"
  /\ fs = <<>>
  /\ jobs = [j \in JobIds |-> IdleJob]
  /\ foreign = {}
  /\ gen = NoGen

\* ------------------------------------------------------------------ actions

\* A request arrives: validation, option parsing, workspace allocation and
\* the synchronous head of setupFernProject, up to the await on specFile.mv.
\* Requests are numbered in their order of arrival; dt is the time that passed
\* since the clock was last read (the first arrival sets the origin).  A field
\* the handler never reads is left at its default.
Receive(j) ==
  /\ proc # "down"
  /\ ~execSyncRunning
  /\ jobs[j].pc = "idle"
  /\ \A i \in JobIds : i < j => jobs[i].pc # "idle"
  /\ \E k \in Routes(version), hs \in BOOLEAN, pa \in ParamValues,
        cf \in CfgValues, nodeExits \in BOOLEAN, hd \in Headers,
        dt \in 0..(IF j = 1 THEN 0 ELSE MaxElapsed) :
       LET req == [kind |-> k, hasSpec |-> hs, params |-> pa, cfg |-> cf]
           j0 == [jobs[j] EXCEPT !.kind = k, !.hasSpec = hs, !.params = pa,
                                 !.cfg = cf, !.header = hd,
                                 !.upload = fileUpload(hs),
                                 !.packageName =
                                   RequestNames(version, j, pa, cf).packageName,
                                 !.language =
                                   RequestNames(version, j, pa, cf).language]
           auth == checkApiKey(version, apiKey, hd)
           pre == IF auth = "next" THEN PreCheck(version, req) ELSE "refused"
           p == WorkDirFor(version, req, now + dt)
           f1 == ensureDirSync(fs, p, j)
           j1 == [j0 EXCEPT !.workDir = p, !.trace = <<"created">>]
           th == Thrown(version, j, [j1 EXCEPT !.failed = "nospec"], f1, "500")
       IN /\ Defects(req) <= MaxDefects
          /\ ReadsParams(version, k) \/ pa = "ok"
          /\ (OptionsCarryParams(version) /\ pa # "ok") => cf = "tempDir"
          /\ ReadsCfg(version, k) \/ cf = "none"
          /\ ReadsHeader(version, apiKey) \/ hd = "none"
          /\ auth # "next" => (pa = "ok" /\ cf = "none" /\ dt = 0)
          /\ CASE pre = "refused" ->
                 /\ jobs' = [jobs EXCEPT ![j] =
                               Respond([j0 EXCEPT !.failed = "auth"], auth, fs)]
                 /\ UNCHANGED <<proc, fs, foreign>>
            [] pre \in {"400", "500"} ->
                 /\ jobs' = [jobs EXCEPT ![j] =
                               Respond([j0 EXCEPT !.failed = "request"], pre, fs)]
                 /\ UNCHANGED <<proc, fs, foreign>>
            [] pre = "unhandled" ->
                 /\ jobs' = [jobs EXCEPT ![j] =
                               [j0 EXCEPT !.pc = "hung", !.failed = "request"]]
                 /\ proc' = UnhandledRejection(version, proc, nodeExits)
                 /\ UNCHANGED <<fs, foreign>>
            [] OTHER ->
                 IF SpecCheckedInSetup(version) /\ ~hs
                 THEN /\ jobs' = [jobs EXCEPT ![j] = th.job]
                      /\ fs' = th.fs
                      /\ foreign' = foreign \cup th.ops
                      /\ UNCHANGED proc
                 ELSE /\ jobs' = [jobs EXCEPT ![j] = [j1 EXCEPT !.pc = "mv"]]
                      /\ fs' = f1
                      /\ UNCHANGED <<proc, foreign>>
          /\ now' = now + dt
  /\ UNCHANGED <<version, apiKey, gen>>

\* A /check handler that was copied from /generate with the command left in.
ToolCommand_generateOnly(v, k) == "fern generate"

\* The command of the tool stage: `fern check` on /check, `fern generate` on
\* /generate.
ToolCommand(v, k) == IF k = "check" THEN "fern check" ELSE "fern generate"

\* A handler whose catch (genError) block only logs, so that the code after
\* the try statement runs whatever the exit status was.
genErrorCaught_logsOnly(fail) == FALSE

\* try { execSync('fern generate ...') } catch (genError) { return 500 }: the
\* catch block is entered when the command exits non-zero.
genErrorCaught(fail) == fail = "tool"

\* The outcome of the tool stage and what follows it in the same step, for a
\* job whose earlier stages succeeded.  f is the filesystem with the spec
\* saved, fail the failing stage ("tool" or "none"), out what the generator
\* left in <workDir>/generated.  A workspace that was removed under the
\* running tool has no generated directory and cannot take sdk.zip: part_001
\* answers 500 from its existsSync test; elsewhere fs.createWriteStream emits
\* 'error', which has no listener.
AfterSetup(v, j, job, f, fail, out) ==
  LET wd == job.workDir
      rm == removeSyncGuarded(f, wd)
      fin(jb, code) ==
        IF ToolFinally(v, jb.kind)
        THEN [job |-> [Respond(jb, code, f) EXCEPT
                         !.released = @ + 1, !.raised = @ \/ rm.raised,
                         !.trace = @ \o <<"cleaned">>],
              fs |-> rm.fs, ops |-> Touch(f, j, wd, "remove")]
        ELSE [job |-> Respond(jb, code, f), fs |-> f, ops |-> {}]
      g == MergeGen(f[wd].gen, out)
      f2 == [f EXCEPT ![wd].gen = g]
      \* createZipArchive opens <workDir>/sdk.zip for writing before it looks
      \* at the generated directory.
      f3 == [f2 EXCEPT ![wd].zip = TRUE]
      jz == [job EXCEPT !.genExit = IF fail = "tool" THEN "nonzero" ELSE "zero",
                        !.outDir = g]
  IN IF job.kind = "check"
     THEN IF fail = "tool"
          THEN LET jc == [job EXCEPT !.failed = "tool",
                                     !.valid = CheckFailValid(v),
                                     !.trace = @ \o <<"validated">>]
               IN IF OnFail(v, "check", "tool") = "throw"
                  THEN Thrown(v, j, jc, f, "400")
                  ELSE fin(jc, "400")
          ELSE fin([job EXCEPT !.valid = "true",
                               !.trace = @ \o <<"validated">>], "ok")
     ELSE IF genErrorCaught(fail)
          THEN [job |-> Respond([job EXCEPT !.failed = "tool",
                                            !.genExit = "nonzero",
                                            !.details =
                                              genErrorDetails(ExecError(j))],
                                 "500", f),
                fs |-> f, ops |-> {}]
          ELSE IF wd \notin DOMAIN f
          THEN IF VerifiesOutput(v)
               THEN [job |-> Respond([job EXCEPT !.failed = "verify",
                                                 !.genExit = "zero",
                                                 !.outDir = "absent"],
                                     "500", f),
                     fs |-> f, ops |-> {}]
               ELSE [job |-> [job EXCEPT !.pc = "hung", !.failed = "pack",
                                         !.genExit = "zero",
                                         !.outDir = "absent",
                                         !.packIn = "absent"],
                     fs |-> f, ops |-> {}]
          ELSE IF VerifiesOutput(v) /\ g = "absent"
          THEN [job |-> Respond([jz EXCEPT !.failed = "verify"], "500", f2),
                fs |-> f2, ops |-> Touch(f, j, wd, "write")]
          ELSE IF createZipArchive(v, g) = "reject"
          THEN IF OnFail(v, "generate", "pack") = "throw"
               THEN LET th == Thrown(v, j, [jz EXCEPT !.failed = "pack",
                                                      !.packIn = g], f3, "500")
                    IN [job |-> th.job, fs |-> th.fs,
                        ops |-> th.ops \cup Touch(f, j, wd, "write")]
               ELSE [job |-> Respond([jz EXCEPT !.failed = "pack", !.packIn = g],
                                     "500", f3),
                     fs |-> f3, ops |-> Touch(f, j, wd, "write")]
          ELSE [job |-> [jz EXCEPT !.pc = "zip", !.packIn = g],
                fs |-> f3, ops |-> Touch(f, j, wd, "write")]

\* specFile.mv completed.  The handler runs, without yielding, the npm check,
\* the install and the project layout and starts the tool with execSync.
\* `fail` is the first stage that fails.
MvDone(j) ==
  /\ proc # "down"
  /\ ~execSyncRunning
  /\ jobs[j].pc = "mv"
  /\ LET job == jobs[j]
         wd == job.workDir
         k == job.kind
     IN \E fail \in (StageSet(version, k) \ {"tool"}) \cup {"none"} :
          /\ wd \notin DOMAIN fs => fail = "mv"
          /\ LET f1 == IF fail = "mv" THEN fs ELSE [fs EXCEPT ![wd].spec = TRUE]
                 je == [job EXCEPT !.trace = @ \o Entered(version, k, fail),
                                  !.upload = IF fail = "mv" THEN @ ELSE "moved"]
                 jf == [je EXCEPT !.failed = fail]
                 jr == [je EXCEPT !.tool = ToolCommand(version, k),
                                  !.pc = "tool"]
                 res == IF fail = "none"
                        THEN [job |-> jr, fs |-> f1, ops |-> {}]
                        ELSE IF OnFail(version, k, fail) = "throw"
                        THEN Thrown(version, j, jf, f1, "500")
                        ELSE [job |-> Respond(jf, "500", f1), fs |-> f1,
                              ops |-> {}]
                 wrote == IF fail = "mv" THEN {} ELSE Touch(fs, j, wd, "write")
             IN /\ jobs' = [jobs EXCEPT ![j] = res.job]
                /\ fs' = res.fs
                /\ foreign' = foreign \cup wrote \cup res.ops
                /\ now' = IF RanUpTo(version, k, fail) \cap SubprocessStages # {}
                          THEN now + 1 ELSE now
  /\ UNCHANGED <<version, apiKey, gen, proc>>

\* The tool exited and execSync returns (or throws, on a non-zero exit).  The
\* handler goes on, without yielding, to the response of /check or to the
\* start of the archive.  out is what the generator left in
\* <workDir>/generated, errs the diagnostics of a failed check.
ToolExit(j) ==
  /\ proc # "down"
  /\ jobs[j].pc = "tool"
  /\ LET job == jobs[j]
         wd == job.workDir
         k == job.kind
     IN \E fail \in {"tool", "none"}, out \in GenValues :
        \E errs \in (IF k = "check" /\ fail = "tool" THEN CheckDiagnostics
                      ELSE {<<>>}) :
          /\ (fail # "none" \/ k = "check" \/ wd \notin DOMAIN fs)
               => out = "absent"
          /\ LET jt == IF k = "check" /\ fail = "tool"
                       THEN [job EXCEPT !.errors = errs]
                       ELSE job
                 res == AfterSetup(version, j, jt, fs, fail, out)
             IN /\ jobs' = [jobs EXCEPT ![j] = res.job]
                /\ fs' = res.fs
                /\ foreign' = foreign \cup res.ops
                /\ proc' = IF res.job.pc = "hung"
                           THEN UncaughtException(version, proc) ELSE proc
  /\ UNCHANGED <<version, apiKey, gen, now>>

\* The archive's output stream closed (or the archive reported an error).
\* The handler sets the headers, pipes fs.createReadStream(zipPath) into the
\* response and registers the 'finish' handler.  A zip file that is no longer
\* there makes the read stream emit 'error' with no listener.
ZipDone(j) ==
  /\ proc # "down"
  /\ ~execSyncRunning
  /\ jobs[j].pc = "zip"
  /\ LET job == jobs[j]
         wd == job.workDir
     IN \E ok \in BOOLEAN :
          IF ~ok
          THEN LET jf == [job EXCEPT !.failed = "pack"]
                   res == IF OnFail(version, job.kind, "pack") = "throw"
                          THEN Thrown(version, j, jf, fs, "500")
                          ELSE [job |-> Respond(jf, "500", fs), fs |-> fs,
                                ops |-> {}]
               IN /\ jobs' = [jobs EXCEPT ![j] = res.job]
                  /\ fs' = res.fs
                  /\ foreign' = foreign \cup res.ops
                  /\ UNCHANGED proc
          ELSE IF wd \in DOMAIN fs /\ fs[wd].zip
          THEN /\ jobs' = [jobs EXCEPT ![j] =
                             [job EXCEPT !.pc = "stream", !.resp = "archive",
                                         !.wsAtResp = TRUE,
                                         !.filename =
                                           ContentDisposition(jobs, j),
                                         !.trace = @ \o <<"packaged",
                                                           "responded">>]]
               /\ foreign' = foreign \cup Touch(fs, j, wd, "archive")
               /\ UNCHANGED <<proc, fs>>
          ELSE /\ jobs' = [jobs EXCEPT ![j] = [job EXCEPT !.pc = "hung"]]
               /\ proc' = UncaughtException(version, proc)
               /\ UNCHANGED <<fs, foreign>>
  /\ UNCHANGED <<version, apiKey, gen, now>>

\* The response was written out completely: 'finish' fires and its handler
\* releases the workspace.
StreamFinish(j) ==
  /\ proc # "down"
  /\ ~execSyncRunning
  /\ jobs[j].pc = "stream"
  /\ jobs[j].connected
  /\ LET job == [jobs[j] EXCEPT !.fin = TRUE, !.released = @ + 1]
         r == removeSyncGuarded(fs, job.workDir)
     IN IF FinishCleanup(version) = "sync"
        THEN /\ jobs' = [jobs EXCEPT ![j] =
                           [job EXCEPT !.pc = "done", !.raised = @ \/ r.raised,
                                       !.trace = @ \o <<"cleaned">>]]
             /\ fs' = r.fs
             /\ foreign' = foreign \cup Touch(fs, j, job.workDir, "remove")
        ELSE /\ jobs' = [jobs EXCEPT ![j] = [job EXCEPT !.pc = "rmFin"]]
             /\ UNCHANGED <<fs, foreign>>
  /\ UNCHANGED <<version, apiKey, gen, now, proc>>

\* The caller goes away while its request is being worked on.  The handler
\* does not listen for it; a response that was not written out completely
\* never emits 'finish'.
Disconnect(j) ==
  /\ proc # "down"
  /\ jobs[j].pc \in {"mv", "tool", "zip", "stream"}
  /\ jobs[j].connected
  /\ jobs' = [jobs EXCEPT ![j].connected = FALSE]
  /\ UNCHANGED <<version, apiKey, gen, now, proc, fs, foreign>>

\* fs.remove does its work on a thread of the pool: the directory goes away at
\* some moment between the call and the completion callback, whatever the main
\* thread is doing.
FsRemoveWork(j) ==
  /\ proc # "down"
  /\ jobs[j].pc \in {"rmErr", "rmFin"}
  /\ jobs[j].workDir \in DOMAIN fs
  /\ fs' = cleanupWorkDir(fs, jobs[j].workDir).fs
  /\ foreign' = foreign \cup Touch(fs, j, jobs[j].workDir, "remove")
  /\ UNCHANGED <<version, apiKey, gen, now, proc, jobs>>

\* The fs.remove started by the inner catch block of /generate completed; the
\* handler rethrows and the outer catch answers 500.
CleanupErrDone(j) ==
  /\ proc # "down"
  /\ ~execSyncRunning
  /\ jobs[j].pc = "rmErr"
  /\ LET job == jobs[j]
         r == cleanupWorkDir(fs, job.workDir)
     IN /\ jobs' = [jobs EXCEPT ![j] =
                      Respond([job EXCEPT !.raised = @ \/ r.raised,
                                          !.trace = @ \o <<"cleaned">>],
                              "500", r.fs)]
        /\ fs' = r.fs
        /\ foreign' = foreign \cup Touch(fs, j, job.workDir, "remove")
  /\ UNCHANGED <<version, apiKey, gen, now, proc>>

\* The fs.remove started by the 'finish' handler completed.
CleanupFinDone(j) ==
  /\ proc # "down"
  /\ ~execSyncRunning
  /\ jobs[j].pc = "rmFin"
  /\ LET job == jobs[j]
         r == cleanupWorkDir(fs, job.workDir)
     IN /\ jobs' = [jobs EXCEPT ![j] =
                      [job EXCEPT !.pc = "done", !.raised = @ \/ r.raised,
                                  !.trace = @ \o <<"cleaned">>]]
        /\ fs' = r.fs
        /\ foreign' = foreign \cup Touch(fs, j, job.workDir, "remove")
  /\ UNCHANGED <<version, apiKey, gen, now, proc>>

\* The grace delay after an uncaught fault ran out: process.exit(1).
ProcessExit ==
  /\ proc = "grace"
  /\ ~execSyncRunning
  /\ proc' = "down"
  /\ UNCHANGED <<version, apiKey, gen, now, fs, jobs, foreign>>

\* Every step job j can take.
JobNext(j) ==
  \/ Receive(j)
  \/ MvDone(j)
  \/ ToolExit(j)
  \/ ZipDone(j)
  \/ StreamFinish(j)
  \/ CleanupErrDone(j)
  \/ CleanupFinDone(j)

Next ==
  \/ ProcessExit
  \/ \E j \in JobIds : Receive(j)
  \/ \E j \in JobIds : MvDone(j)
  \/ \E j \in JobIds : ToolExit(j)
  \/ \E j \in JobIds : ZipDone(j)
  \/ \E j \in JobIds : StreamFinish(j)
  \/ \E j \in JobIds : Disconnect(j)
  \/ \E j \in JobIds : FsRemoveWork(j)
  \/ \E j \in JobIds : CleanupErrDone(j)
  \/ \E j \in JobIds : CleanupFinDone(j)

Spec == Init /\ [][Next]_vars

\* The server started with or without API_KEY in its environment.
InitAnyKey ==
  /\ version \in Versions
  /\ apiKey \in KeyStates
  /\ now = 0
  /\ proc = "up"
  /\ fs = <<>>
  /\ jobs = [j \in JobIds |-> IdleJob]
  /\ foreign = {}
  /\ gen = NoGen

SpecAnyKey == InitAnyKey /\ [][Next]_vars

\* The same steps under the scheduling Node guarantees: a timer that was set
\* fires once the event loop is free, and a started tool exits.
SpecFair ==
  /\ Spec
  /\ WF_vars(ProcessExit)
  /\ \A j \in JobIds : WF_vars(ToolExit(j))

\* ------------------------------------------------------------------ a workspace that cannot be created

\* Where a throwing fs.ensureDirSync(workDir) ends: the /check handlers of
\* src/server.js and part_001 call it before their try statement, inside an
\* async function, so the promise of the handler rejects and nothing answers;
\* every other handler calls it inside its outer try, whose catch answers 500.
EnsureDirThrown(v, k) ==
  IF v \in {"server", "part001"} /\ k = "check" THEN "unhandled" ELSE "500"

\* A request arrives and fs.ensureDirSync(workDir) throws (the temp root is
\* read-only, full or missing).  Spec takes the creation to succeed.
ReceiveMkdirFails(j) ==
  /\ proc # "down"
  /\ ~execSyncRunning
  /\ jobs[j].pc = "idle"
  /\ \A i \in JobIds : i < j => jobs[i].pc # "idle"
  /\ \E k \in Routes(version), hs \in BOOLEAN, pa \in ParamValues,
        cf \in CfgValues, nodeExits \in BOOLEAN, hd \in Headers :
       LET req == [kind |-> k, hasSpec |-> hs, params |-> pa, cfg |-> cf]
           j0 == [jobs[j] EXCEPT !.kind = k, !.hasSpec = hs, !.params = pa,
                                 !.cfg = cf, !.header = hd,
                                 !.upload = fileUpload(hs),
                                 !.packageName =
                                   RequestNames(version, j, pa, cf).packageName,
                                 !.language =
                                   RequestNames(version, j, pa, cf).language,
                                 !.failed = "mkdir"]
       IN /\ Defects(req) <= MaxDefects
          /\ ReadsParams(version, k) \/ pa = "ok"
          /\ (OptionsCarryParams(version) /\ pa # "ok") => cf = "tempDir"
          /\ ReadsCfg(version, k) \/ cf = "none"
          /\ ReadsHeader(version, apiKey) \/ hd = "none"
          /\ checkApiKey(version, apiKey, hd) = "next"
          /\ PreCheck(version, req) = "ok"
          /\ IF EnsureDirThrown(version, k) = "unhandled"
             THEN /\ jobs' = [jobs EXCEPT ![j] = [j0 EXCEPT !.pc = "hung"]]
                  /\ proc' = UnhandledRejection(version, proc, nodeExits)
             ELSE /\ jobs' = [jobs EXCEPT ![j] = Respond(j0, "500", fs)]
                  /\ nodeExits
                  /\ UNCHANGED proc
  /\ UNCHANGED <<version, apiKey, now, fs, foreign, gen>>

NextMkdir ==
  \/ Next
  \/ \E j \in JobIds : ReceiveMkdirFails(j)

SpecMkdir == Init /\ [][NextMkdir]_vars

\* ------------------------------------------------------------------ the diagnostics of a failed check

\* `fern check` exited non-zero, having written stderr and stdout.
InitDiag ==
  /\ version \in Versions \ {"part000"}
  /\ apiKey = "set"
  /\ now = 0
  /\ proc = "up"
  /\ fs = <<>>
  /\ jobs = [j \in JobIds |-> IdleJob]
  /\ foreign = {}
  /\ \E e \in DiagCaptured, o \in DiagCaptured :
       gen = [NoGen EXCEPT !.pc = "check failed", !.route = "check",
                           !.stderr = e, !.stdout = o]

\* The catch (checkError) block computes validationErrors.
ParseCheckError ==
  /\ gen.pc = "check failed"
  /\ gen' = [gen EXCEPT !.pc = "parsed",
                        !.errors = parseValidationErrors(gen.stderr,
                                                         gen.stdout)]
  /\ UNCHANGED <<version, apiKey, now, proc, fs, jobs, foreign>>

NextDiag == ParseCheckError

SpecDiag == InitDiag /\ [][NextDiag]_vars

\* ------------------------------------------------------------------ the generator configuration on its own

\* A generate request that passed validation, with any language identifier,
\* package name and toggles.
InitConfig ==
  /\ version \in Versions
  /\ apiKey = "set"
  /\ now = 0
  /\ proc = "up"
  /\ fs = <<>>
  /\ jobs = [j \in JobIds |-> IdleJob]
  /\ foreign = {}
  /\ \E l \in Languages, n \in PackageNames, ex \in Toggles, te \in Toggles :
       gen = [NoGen EXCEPT !.pc = "accepted", !.language = l,
                           !.packageName = n, !.includeExamples = ex,
                           !.includeTests = te]

\* The handler writes the generator configuration into the project.
WriteGenerators ==
  /\ gen.pc = "accepted"
  /\ gen' = [gen EXCEPT
               !.pc = "written",
               !.out = generateFernGeneratorsConfig(
                         version, gen.language, gen.packageName,
                         [includeExamples |-> gen.includeExamples,
                          includeTests |-> gen.includeTests])]
  /\ UNCHANGED <<version, apiKey, now, proc, fs, jobs, foreign>>

\* The handler runs the generate command.
InvokeGenerate ==
  /\ gen.pc = "written"
  /\ gen' = [gen EXCEPT !.pc = "invoked",
                        !.target = GenerateTarget(version, gen.language)]
  /\ UNCHANGED <<version, apiKey, now, proc, fs, jobs, foreign>>

NextConfig ==
  \/ WriteGenerators
  \/ InvokeGenerate

SpecConfig == InitConfig /\ [][NextConfig]_vars

\* A request of either route with its language, package name and toggles,
\* accepted and about to have its Fern project laid out.
InitSetup ==
  /\ version \in Versions
  /\ apiKey = "set"
  /\ now = 0
  /\ proc = "up"
  /\ fs = <<>>
  /\ jobs = [j \in JobIds |-> IdleJob]
  /\ foreign = {}
  /\ \E k \in Routes(version), l \in Languages, n \in PackageNames,
        ex \in Toggles, te \in Toggles :
       gen = [NoGen EXCEPT !.pc = "accepted", !.route = k, !.language = l,
                           !.packageName = n, !.includeExamples = ex,
                           !.includeTests = te]

\* The project layout reaches generators.yml.
SetupProject ==
  /\ gen.pc = "accepted"
  /\ gen' = [gen EXCEPT
               !.pc = "laid out",
               !.created = OutputDirCreated(version),
               !.written = generatorsContent(
                             version, gen.route, gen.language, gen.packageName,
                             [includeExamples |-> gen.includeExamples,
                              includeTests |-> gen.includeTests])]
  /\ UNCHANGED <<version, apiKey, now, proc, fs, jobs, foreign>>

\* `fern generate` exited with status zero and the handler looks (or does
\* not look) for the output.
VerifyOutput ==
  /\ gen.pc = "laid out"
  /\ gen.route = "generate"
  /\ gen' = [gen EXCEPT !.pc = "generated",
                        !.verified = OutputDirVerified(version)]
  /\ UNCHANGED <<version, apiKey, now, proc, fs, jobs, foreign>>

\* createZipArchive adds the output directory to the archive.
PackOutput ==
  /\ gen.pc = "generated"
  /\ gen' = [gen EXCEPT !.pc = "packed", !.walked = OutputDirWalked(version)]
  /\ UNCHANGED <<version, apiKey, now, proc, fs, jobs, foreign>>

NextSetup ==
  \/ SetupProject
  \/ VerifyOutput
  \/ PackOutput

SpecSetup == InitSetup /\ [][NextSetup]_vars

\* ------------------------------------------------------------------ properties

Live(j) == jobs[j].pc \in {"mv", "tool", "zip", "stream", "rmErr", "rmFin"}

HasWorkspace(j) == jobs[j].workDir # NoDir

WorkspaceExists(j) == jobs[j].workDir \in DOMAIN fs

\* Job j has nothing left to do: its handler returned, or hangs, or waits for
\* an event that cannot come any more.  A callback that only waits for a
\* running execSync to return is still to come.
Quiescent(j) == ~execSyncRunning /\ ~ENABLED JobNext(j)

FailureResponses == {"400", "500"}

\* The request of job j got past checkApiKey.
Admitted(j) == jobs[j].failed # "auth"

\* C1: a generate job whose `fern generate` exits non-zero never reaches
\* createZipArchive, and once its failure response was sent its workspace
\* directory is gone.
C1_FailedGenerateLeavesNoWorkspace ==
  \A j \in JobIds :
    (jobs[j].kind = "generate" /\ jobs[j].genExit = "nonzero") =>
      /\ jobs[j].packIn = "none"
      /\ jobs[j].resp # "none" => ~WorkspaceExists(j)

\* C2: no failure response is sent while the failing job's workspace still
\* exists: the release completes before the response.
C2_ReleaseBeforeFailureResponse ==
  \A j \in JobIds :
    (HasWorkspace(j) /\ jobs[j].resp \in FailureResponses) => ~jobs[j].wsAtResp

\* C3: after the response of a validate job that created a workspace was sent
\* and its handler is through, the workspace is gone, whatever the outcome.
C3_CheckWorkspaceRemoved ==
  \A j \in JobIds :
    (jobs[j].kind = "check" /\ HasWorkspace(j) /\ jobs[j].resp # "none"
       /\ Quiescent(j)) => ~WorkspaceExists(j)

\* C4: the workspace of a generate job whose archive was streamed to
\* completion is eventually removed: no such job comes to rest with its
\* workspace (and the archive in it) still there.
C4_StreamedWorkspaceRemoved ==
  \A j \in JobIds :
    (jobs[j].fin /\ Quiescent(j)) => ~WorkspaceExists(j)

\* C5: the workspace of a job whose caller disconnected after the workspace
\* was created (during setup, during the tool invocation or while the archive
\* is streamed) is still eventually removed: no such job comes to rest with its
\* workspace still there.  Stated for the /generate jobs none of whose stages
\* fails, whose only release is the response's 'finish' handler, in a server
\* process that is still running.
C5_DisconnectedWorkspaceRemoved ==
  \A j \in JobIds :
    (jobs[j].kind = "generate" /\ HasWorkspace(j) /\ jobs[j].failed = "none"
       /\ ~jobs[j].connected /\ proc # "down" /\ Quiescent(j))
      => ~WorkspaceExists(j)

\* C6: a job that fails on the missing spec file inside setupFernProject, after
\* its workspace was created and before any subprocess ran, has released the
\* workspace when it ends, on /check as on /generate.
C6_NoSpecWorkspaceReleased ==
  \A j \in JobIds :
    (jobs[j].failed = "nospec" /\ jobs[j].pc = "done") => ~WorkspaceExists(j)

\* C7: two live jobs never hold the same workspace path.
C7_DistinctWorkspaces ==
  \A i, j \in JobIds :
    (i # j /\ Live(i) /\ Live(j)) => jobs[i].workDir # jobs[j].workDir

\* C8: no job writes into, archives from or removes a workspace that another
\* job allocated.
C8_NoForeignAccess == foreign = {}

\* The paths a release can be asked for: those that exist and those some job
\* was given (they may be gone already).
KnownPaths == (DOMAIN fs) \cup {jobs[j].workDir : j \in {i \in JobIds : HasWorkspace(i)}}

C10_EmptyOutputNotDelivered ==
  \A j \in JobIds :
    (jobs[j].kind = "generate" /\ jobs[j].genExit = "zero"
       /\ jobs[j].outDir \in {"absent", "empty"}) =>
      /\ jobs[j].resp # "archive"
      /\ jobs[j].pc = "done" => jobs[j].resp = "500"

\* Failures of the environment a request cannot rule out: the spec file could
\* not be saved, a subprocess exited non-zero, the layout could not be
\* written, the generator left no usable output, the archiver failed.
StageFailures ==
  {"mv", "npm", "install", "materialize", "genconfig", "init", "tool",
   "verify", "pack"}

\* C11: a generate job with spec file, language and package name and without
\* a config field, none of whose stages fails and whose output directory holds
\* files, ends with the archive response and not with a failure response.
C11_PlainGenerateDelivered ==
  \A j \in JobIds :
    (jobs[j].kind = "generate" /\ jobs[j].hasSpec /\ jobs[j].params = "ok"
       /\ Admitted(j)
       /\ jobs[j].cfg = "none" /\ jobs[j].failed \notin StageFailures
       /\ jobs[j].outDir \in {"none", "files"})
      => jobs[j].resp \notin FailureResponses

\* C12: when the check invocation of a validate job exits non-zero, the
\* response has a success status and its body carries valid:false; it is not a
\* client or server fault.
C12_FailedCheckIsSuccessResponse ==
  \A j \in JobIds :
    (jobs[j].kind = "check" /\ jobs[j].failed = "tool" /\ jobs[j].resp # "none")
      => jobs[j].resp = "ok" /\ jobs[j].valid = "false"

\* C13: whatever the failing check invocation wrote to stderr and stdout, the
\* diagnostics list of the response has at least one line.
C13_DiagnosticsNonEmpty ==
  \A j \in JobIds :
    (jobs[j].kind = "check" /\ jobs[j].failed = "tool" /\ jobs[j].resp # "none")
      => jobs[j].errors # <<>>

\* C14: for each supported language the written configuration declares exactly
\* one variant, that language's; for any other identifier it is identical to
\* the configuration written for 'typescript' with the same package name and
\* options.
C14_VariantPerLanguage ==
  gen.pc \in {"written", "invoked"} =>
    LET config == [includeExamples |-> gen.includeExamples,
                   includeTests |-> gen.includeTests]
    IN IF gen.language \in Supported
       THEN gen.out.variants = {gen.language}
       ELSE gen.out = generateFernGeneratorsConfig(version, "typescript",
                                                   gen.packageName, config)

\* C15: a generate job with an unsupported language passes request
\* validation, gets the typescript variant written, and its generate command
\* targets a group that the written configuration declares.
C15_UnsupportedLanguageProceeds ==
  (gen.pc = "invoked" /\ gen.language \notin Supported) =>
    /\ PreCheck(version, [kind |-> "generate", hasSpec |-> TRUE,
                          params |-> "ok", cfg |-> "tempDir"]) = "ok"
    /\ gen.out.variants = {"typescript"}
    /\ TargetDeclared(gen.out, gen.target)

\* C16: the include-examples toggle of the written configuration is the
\* caller's value when one is given (an explicit false included) and true
\* otherwise; the include-tests toggle is the caller's value when one is given
\* and false otherwise.
C16_TogglesFollowOptions ==
  gen.pc \in {"written", "invoked"} =>
    /\ gen.out.includeExamples =
         (IF gen.includeExamples = "absent" THEN "true" ELSE gen.includeExamples)
    /\ gen.out.includeTests =
         (IF gen.includeTests = "absent" THEN "false" ELSE gen.includeTests)

\* C17: a request without a spec file is rejected as a bad request and no
\* directory is created for it, on /check as on /generate.
C17_NoSpecRejectedBeforeWorkspace ==
  \A j \in JobIds :
    (jobs[j].pc # "idle" /\ Admitted(j) /\ ~jobs[j].hasSpec) =>
      /\ jobs[j].resp = "400"
      /\ ~HasWorkspace(j)

\* C18: a request that lacks the language or the package name is answered
\* with 400, and no workspace is created and no subprocess is run for it.
C18_MissingParamRejected ==
  \A j \in JobIds :
    (jobs[j].pc # "idle" /\ Admitted(j) /\ jobs[j].params # "ok") =>
      /\ jobs[j].resp = "400"
      /\ ~HasWorkspace(j)
      /\ jobs[j].failed = "request"

\* C19: a request whose config field cannot be parsed is answered with a
\* bad-request response, and no workspace is created and no subprocess is run
\* for it.
C19_MalformedConfigRejected ==
  \A j \in JobIds :
    (jobs[j].pc # "idle" /\ Admitted(j) /\ jobs[j].cfg = "malformed") =>
      /\ jobs[j].resp = "400"
      /\ ~HasWorkspace(j)
      /\ jobs[j].failed = "request"

\* The stage of the job life cycle a trace entry belongs to: workspace
\* created, spec saved, availability verified, tool installed, layout and
\* generator configuration written, tool invoked, result produced, response
\* sent, workspace cleaned.
StageNo(e) ==
  CASE e = "created" -> 1
    [] e = "saved" -> 2
    [] e = "npm" -> 3
    [] e = "install" -> 4
    [] e \in {"layout", "genconfig"} -> 5
    [] e = "invoke" -> 6
    [] e \in {"validated", "packaged"} -> 7
    [] e = "responded" -> 8
    [] OTHER -> 9

Events(t) == {t[i] : i \in 1..Len(t)}

\* Entry a comes before entry b wherever both are in the trace.
Precedes(t, a, b) ==
  \A m, n \in 1..Len(t) : (t[m] = a /\ t[n] = b) => m < n

NoRepeat(t) == \A m, n \in 1..Len(t) : m # n => t[m] # t[n]

\* The invocation starts only after the availability check, the install and
\* the layout (with the generator configuration) were gone through.
InvokeAfterSetup(t) ==
  "invoke" \in Events(t) =>
    \A e \in {"created", "saved", "npm", "install", "layout"} :
      e \in Events(t) /\ Precedes(t, e, "invoke")

C21_SetupFailureEndsJob ==
  \A j \in JobIds :
    jobs[j].failed \in {"npm", "install"} =>
      /\ Events(jobs[j].trace)
           \cap {"layout", "invoke", "validated", "packaged"} = {}
      /\ jobs[j].genExit = "none"
      /\ jobs[j].packIn = "none"
      /\ jobs[j].resp \in {"none", "500"}
      /\ (Quiescent(j) /\ proc # "down") => jobs[j].resp = "500"

\* A /check job and a /generate job both ended on a failed install.
C21_Witness ==
  \E i, j \in JobIds :
    /\ jobs[i].kind = "check" /\ jobs[j].kind = "generate"
    /\ jobs[i].failed = "install" /\ jobs[j].failed \in {"npm", "install"}
    /\ jobs[i].resp = "500" /\ jobs[j].resp = "500"
    /\ "npm" \in Events(jobs[j].trace)

\* The trace entries that stand for a subprocess: npm --version, the install,
\* check or generate, and in part_000 the layout, which is `fern init`.
SubprocessEvents(v) ==
  {EventOf(s) : s \in SubprocessStages \cap StageSet(v, "generate")}

\* How often entry e occurs in trace t.
Occurrences(t, e) == Cardinality({i \in 1..Len(t) : t[i] = e})

\* C22: in every job each external command runs at most once, and after a
\* non-zero exit of check or generate the job runs no further subprocess.
C22_NoRetry ==
  \A j \in JobIds :
    LET t == jobs[j].trace
    IN /\ \A e \in SubprocessEvents(version) : Occurrences(t, e) <= 1
       /\ jobs[j].failed = "tool" =>
            \A m, n \in 1..Len(t) :
              (t[m] = "invoke" /\ m < n) => t[n] \notin SubprocessEvents(version)

\* A check job and a generate job each ran their three commands, the tool
\* exited non-zero, and both handlers are through.
C22_Witness ==
  \E i, j \in JobIds :
    /\ jobs[i].kind = "check" /\ jobs[j].kind = "generate"
    /\ jobs[i].failed = "tool" /\ jobs[j].failed = "tool"
    /\ jobs[i].pc = "done" /\ jobs[j].pc = "done"
    /\ \A e \in {"npm", "install", "invoke"} :
         Occurrences(jobs[i].trace, e) = 1 /\ Occurrences(jobs[j].trace, e) = 1

\* C23: an archive response is sent for a generate job only after its
\* generate invocation exited zero and its archive was completed; delivery
\* never precedes packaging, and packaging never precedes a zero exit.
C23_DeliveryAfterPackaging ==
  \A j \in JobIds :
    LET t == jobs[j].trace
    IN /\ jobs[j].resp = "archive" =>
            /\ jobs[j].kind = "generate"
            /\ jobs[j].genExit = "zero"
            /\ "packaged" \in Events(t)
            /\ Precedes(t, "packaged", "responded")
       /\ (jobs[j].packIn # "none" \/ "packaged" \in Events(t)) =>
            /\ jobs[j].genExit = "zero"
            /\ "invoke" \in Events(t)
            /\ Precedes(t, "invoke", "packaged")
       /\ jobs[j].pc = "zip" => jobs[j].resp = "none"

\* An archive is on its way to the caller.
C23_Witness ==
  \E j \in JobIds :
    /\ jobs[j].resp = "archive"
    /\ jobs[j].pc = "stream"
    /\ jobs[j].outDir = "files"

\* C24: a validate job never runs the generate command, never builds an
\* archive and never sends an archive response; a generate job never runs the
\* check command.
C24_KindsKeepApart ==
  \A j \in JobIds :
    /\ jobs[j].kind = "check" =>
         /\ jobs[j].tool \in {"none", "fern check"}
         /\ jobs[j].packIn = "none"
         /\ jobs[j].genExit = "none"
         /\ "packaged" \notin Events(jobs[j].trace)
         /\ jobs[j].pc \notin {"zip", "stream", "rmFin"}
         /\ jobs[j].resp # "archive"
    /\ jobs[j].kind = "generate" =>
         /\ jobs[j].tool \in {"none", "fern generate"}
         /\ jobs[j].valid = "none"
         /\ "validated" \notin Events(jobs[j].trace)

\* A validate job and a generate job both ran their tool and answered.
C24_Witness ==
  \E i, j \in JobIds :
    /\ jobs[i].kind = "check" /\ jobs[i].tool = "fern check"
    /\ jobs[i].resp = "ok"
    /\ jobs[j].kind = "generate" /\ jobs[j].tool = "fern generate"
    /\ jobs[j].resp = "archive"

\* C25: every workspace directory a job creates, and every directory a job's
\* cleanup removes, lies directly under the server's configured temp root,
\* whatever the caller's options hold.
C25_WorkspacesUnderTempRoot ==
  /\ \A p \in DOMAIN fs : p.root = "tmp"
  /\ \A j \in JobIds : HasWorkspace(j) => jobs[j].workDir.root = "tmp"

C27_OtherJobsProgress ==
  \A j \in JobIds :
    jobs[j].pc = "tool" =>
      \A i \in JobIds \ {j} :
        /\ jobs[i].pc \in {"mv", "zip", "rmErr", "rmFin"} => ENABLED JobNext(i)
        /\ (jobs[i].pc = "idle" /\ \A h \in JobIds : h < i => jobs[h].pc # "idle")
             => ENABLED Receive(i)

\* An exception nobody caught, or a promise rejection nobody handled, left a
\* request without an answer.
Faulted == \E j \in JobIds : jobs[j].pc = "hung"

\* C28: after an uncaught exception or an unhandled rejection the service is
\* eventually terminated: from the fault on its exit is pending or done, so
\* that it does not keep serving for ever, and the termination itself neither
\* cleans up nor completes a job in flight.
C28_FaultTerminatesService ==
  /\ [](Faulted => proc \in {"grace", "down"})
  /\ Faulted ~> (proc = "down")
  /\ [][proc' = "down" /\ proc # "down" => fs' = fs /\ (\A j \in JobIds :
           jobs'[j].resp = jobs[j].resp /\ jobs'[j].released = jobs[j].released)]_vars

\* C29: with an API key configured, a request whose x-api-key header is
\* missing or different is answered with 401, and no workspace is created, no
\* file written and no subprocess run for it.
C29_WrongKeyRefused ==
  \A j \in JobIds :
    (apiKey = "set" /\ jobs[j].pc # "idle" /\ jobs[j].header # "right") =>
      /\ jobs[j].resp = "401"
      /\ jobs[j].pc = "done"
      /\ ~HasWorkspace(j)
      /\ jobs[j].trace = <<"responded">>
      /\ jobs[j].tool = "none"
      /\ jobs[j].upload = "none"

\* C30: without an API key configured the protection is off: a request is
\* taken up as a job whether or not it carries an x-api-key header, and is
\* not refused by checkApiKey.
C30_NoKeyNoProtection ==
  \A j \in JobIds :
    (apiKey = "unset" /\ jobs[j].pc # "idle") => Admitted(j)

\* C31: the suggested filename of every archive response is
\* <packageName>-<targetLanguage>-sdk.zip with the package name and language
\* that the job's own request carried, never those of another job.
C31_FilenameOfOwnJob ==
  \A j \in JobIds :
    jobs[j].resp = "archive" =>
      jobs[j].filename \in
        {<<<<"packageName", j>>, <<"language", j>>, "sdk.zip">>,
         <<DefaultPackageName, DefaultLanguage, "sdk.zip">>}

\* C32: when `fern generate` exits non-zero the server does not crash: the
\* caller receives the 500 response whose details are the captured stderr and
\* stdout of that very invocation, unchanged, and the step that handles the
\* failure leaves the process running and free to take the next request.
C32_ToolFailureAnswered ==
  /\ [](\A j \in JobIds :
          (jobs[j].kind = "generate" /\ jobs[j].genExit = "nonzero") =>
            /\ jobs[j].resp = "500"
            /\ jobs[j].failed = "tool"
            /\ jobs[j].details = <<<<"stderr", j>>, <<"stdout", j>>>>)
  /\ [][\A j \in JobIds :
          (jobs[j].pc = "tool" /\ jobs'[j].genExit = "nonzero") =>
            (proc' = proc /\ ~execSyncRunning')]_vars

C32_Witness ==
  \E j \in JobIds :
    /\ jobs[j].kind = "generate"
    /\ jobs[j].genExit = "nonzero"
    /\ jobs[j].resp = "500"
    /\ jobs[j].details = <<<<"stderr", j>>, <<"stdout", j>>>>
    /\ proc = "up"

\* C33: the generators.yml of every /check job is the minimal validation
\* stub, that of every /generate job the full configuration of the selected
\* variant: the check-only flag the /check handler sets is the one the
\* project setup reads.
C33_CheckGetsStub ==
  gen.pc = "laid out" =>
    /\ gen.route = "check" => gen.written = MinimalGenerators
    /\ gen.route = "generate" =>
         gen.written =
           [text |-> "full",
            config |-> generateFernGeneratorsConfig(
                         version, gen.language, gen.packageName,
                         [includeExamples |-> gen.includeExamples,
                          includeTests |-> gen.includeTests])]

\* C34: when the workspace directory cannot be created, on /check as on
\* /generate, the caller receives a failure response, no specification file
\* is saved and no subprocess is started.
C34_MkdirFailureAnswered ==
  \A j \in JobIds :
    jobs[j].failed = "mkdir" =>
      /\ jobs[j].resp \in FailureResponses
      /\ jobs[j].upload # "moved"
      /\ jobs[j].tool = "none"
      /\ \A i \in 1..Len(jobs[j].trace) :
           jobs[j].trace[i] \notin SubprocessEvents(version)

\* The positions of the lines of a text that hold more than whitespace.
NonBlank(text) == {i \in 1..Len(text) : trim(text[i]) # ""}

\* list holds exactly the non-blank lines of text, trimmed, in their order.
IsDiagnosticsOf(list, text) ==
  /\ Len(list) = Cardinality(NonBlank(text))
  /\ \E f \in [1..Len(list) -> NonBlank(text)] :
       /\ \A a, b \in 1..Len(list) : a < b => f[a] < f[b]
       /\ \A a \in 1..Len(list) : list[a] = trim(text[f[a]])

\* C35: the diagnostics of a failed check come from exactly one stream, stderr
\* when it is non-empty and stdout otherwise: its non-blank lines, trimmed, in
\* their original order, and never an empty string.
C35_DiagnosticsFromOneStream ==
  gen.pc = "parsed" =>
    /\ IsDiagnosticsOf(gen.errors,
                       IF gen.stderr # EmptyString THEN gen.stderr
                       ELSE gen.stdout)
    /\ \A i \in 1..Len(gen.errors) : gen.errors[i] # ""

C35_Witness ==
  /\ gen.pc = "parsed"
  /\ gen.stderr = <<"w ", " e ">>
  /\ gen.stdout = <<" e ", " ">>
  /\ gen.errors = <<"w", "e">>

\* C36: no job invokes the release of its workspace more than once: the
\* cleanup of the catch block and the cleanup of the response's 'finish'
\* handler never both run for one job.
C36_ReleasedAtMostOnce ==
  \A j \in JobIds :
    /\ jobs[j].released <= 1
    /\ jobs[j].fin => jobs[j].failed = "none"
    /\ jobs[j].pc = "rmErr" => ~jobs[j].fin

C36_Witness ==
  \E i, j \in JobIds :
    /\ jobs[i].kind = "generate" /\ jobs[i].fin /\ jobs[i].released = 1
    /\ jobs[j].kind = "generate" /\ jobs[j].failed \notin {"none", "auth"}
    /\ ~jobs[j].fin /\ jobs[j].released = 1

\* C37: every request the server took on receives exactly one response: no
\* handler comes to rest with the request unanswered, and none answers twice.
C37_ExactlyOneResponse ==
  \A j \in JobIds :
    jobs[j].pc # "idle" =>
      /\ Occurrences(jobs[j].trace, "responded") <= 1
      /\ (Quiescent(j) /\ proc = "up") => jobs[j].resp # "none"

\* The number of external commands a trace shows as started.
Started(t) == Cardinality({i \in 1..Len(t) : t[i] \in SubprocessEvents(version)})

\* C38: the subprocess invocations of different jobs never overlap in time:
\* at most one job has a child running, and while the child of one job runs
\* no other job starts a command, the global install included.
C38_SubprocessesNeverOverlap ==
  /\ [](Cardinality({j \in JobIds : jobs[j].pc = "tool"}) <= 1)
  /\ [][\A i, j \in JobIds :
          (i # j /\ jobs[i].pc = "tool") =>
            /\ Started(jobs'[j].trace) = Started(jobs[j].trace)
            /\ jobs'[j].pc = "tool" => jobs[j].pc = "tool"]_vars

C38_Witness ==
  \E i, j \in JobIds :
    /\ jobs[i].pc = "tool"
    /\ jobs[j].pc = "mv"
    /\ Started(jobs[j].trace) = 0

\* C39: the output directory the project setup creates, the one the handler
\* verifies after generation and the one the packager walks are one and the
\* same directory.
C39_OneOutputDirectory ==
  gen.pc = "packed" =>
    Cardinality({gen.created, gen.verified, gen.walked} \ {NoPath}) <= 1

====
